---- MODULE Spec2Model ----
(***************************************************************************)
(* Model of the ECR pull-through pieces of the registry:                   *)
(*   - ecrCredentials (registry/proxy/proxyauth_ecr.go): the credential    *)
(*     cache behind auth.CredentialStore, with its mutex;                  *)
(*   - parseECRURL / isECRURL: the registry URL classifier;                *)
(*   - ecrFetcher (package ecrmirror): the storage middleware that imports *)
(*     an image from ECR on a read miss.                                   *)
(* Strings are sequences: a text string is a sequence of one-character     *)
(* strings, a decoded byte string is a sequence of byte values 0..255.     *)
(* Time is counted in hours.                                               *)
(***************************************************************************)
EXTENDS Integers, Sequences, FiniteSets, TLC

VARIABLES
    \* ---- ecrCredentials ----
    lifetime,   \* c.lifetime: nil, or a pointer to the duration d
    username,   \* c.username
    password,   \* c.password
    expiry,     \* c.expiry
    m,          \* c.m: Unlocked, or the caller holding the mutex
    clock,      \* the wall clock time.Now() reads
    pc,         \* per caller: position inside Basic
    now,        \* per caller: the local variable now
    result,     \* per caller: the local variables result, err
    ret,        \* per caller: the pair Basic returned
    exchanged,  \* per caller: did its call of Basic call GetAuthorizationToken
    allStale,   \* was the cache stale at every entry into Basic so far
    first       \* the answer to the first GetAuthorizationToken call, and its now

VARIABLES
    \* ---- ecrFetcher ----
    fpc,        \* per request: position inside GetContent
    path,       \* per request: the argument path
    matches,    \* per request: the local variable matches
    ops,        \* per request: the store reads and docker commands run so far
    fret        \* per request: what GetContent returned (out, err)

VARIABLES
    \* ---- the import key pattern, applied on its own ----
    key,        \* the string given to the pattern
    submatch,   \* what FindStringSubmatch returned, once matched is TRUE
    matched

VARIABLES
    \* ---- parseECRURL and isECRURL ----
    registryURL, \* the argument of both
    isECR,       \* the result of isECRURL, once called
    parsed       \* the result of parseECRURL, once called

VARIABLES
    \* ---- RefreshToken and SetRefreshToken ----
    tokenSet,    \* the arguments of the last SetRefreshToken call
    tokenResult  \* the arguments and the result of the last RefreshToken call

VARIABLES
    \* ---- configureECRAuth ----
    cfg,         \* the argument cfg
    remoteURL,   \* the argument remoteURL
    configured   \* what configureECRAuth built and returned, once called

credVars ==
    <<lifetime, username, password, expiry, m, clock, pc, now, result, ret,
      exchanged, allStale, first>>

tokenVars == <<tokenSet, tokenResult>>

confVars == <<cfg, remoteURL, configured>>

fetchVars == <<fpc, path, matches, ops, fret>>

matchVars == <<key, submatch, matched>>

urlVars == <<registryURL, isECR, parsed>>

notCredVars == <<tokenVars, fetchVars, matchVars, urlVars, confVars>>

notFetchVars == <<credVars, tokenVars, matchVars, urlVars, confVars>>

notMatchVars == <<credVars, tokenVars, fetchVars, urlVars, confVars>>

notURLVars == <<credVars, tokenVars, fetchVars, matchVars, confVars>>

notTokenVars == <<credVars, fetchVars, matchVars, urlVars, confVars>>

notConfVars == <<credVars, tokenVars, fetchVars, matchVars, urlVars>>

vars == <<credVars, tokenVars, fetchVars, matchVars, urlVars, confVars>>

\* ------------------------------------------------------------------ bounds

\* Number of concurrent GetContent requests on one ecrFetcher.
NumRequests == 2
\* Longest repository part and tag part of the keys given to the pattern.
MaxPart == 2
\* Longest account label and region label of the registry hosts classified.
MaxLabel == 2

\* Number of goroutines calling Basic, each once.
NumCallers == 2
\* The clock runs from 0 to MaxClock.
MaxClock == 2

\* ------------------------------------------------------------------ strings

Empty == <<>>

RECURSIVE IndexFrom(_, _, _)
\* Least i >= from with s[i] = ch, or 0.
IndexFrom(s, ch, from) ==
    IF from > Len(s) THEN 0
    ELSE IF s[from] = ch THEN from
    ELSE IndexFrom(s, ch, from + 1)

RECURSIVE LastIndexFrom(_, _, _)
\* Greatest i <= from with s[i] = ch, or 0.
LastIndexFrom(s, ch, from) ==
    IF from < 1 THEN 0
    ELSE IF s[from] = ch THEN from
    ELSE LastIndexFrom(s, ch, from - 1)

\* A split in two at the last separator instead of the first.
SplitN2_AtLast(s, sep) ==
    LET i == LastIndexFrom(s, sep, Len(s))
    IN  IF i = 0 THEN <<s>>
        ELSE <<SubSeq(s, 1, i - 1), SubSeq(s, i + 1, Len(s))>>

\* strings.SplitN(s, sep, 2) for a one-byte separator.
SplitN2(s, sep) ==
    LET i == IndexFrom(s, sep, 1)
    IN  IF i = 0 THEN <<s>>
        ELSE <<SubSeq(s, 1, i - 1), SubSeq(s, i + 1, Len(s))>>

\* ------------------------------------------------------------------ base64

\* The alphabet of base64.StdEncoding; the value of a character is its index - 1.
B64Chars ==
    <<"A","B","C","D","E","F","G","H","I","J","K","L","M","N","O","P","Q","R","S","T",
      "U","V","W","X","Y","Z","a","b","c","d","e","f","g","h","i","j","k","l","m","n",
      "o","p","q","r","s","t","u","v","w","x","y","z","0","1","2","3","4","5","6","7",
      "8","9","+","/">>

B64Pad == "="

IsB64(ch) == \E i \in 1..Len(B64Chars) : B64Chars[i] = ch

B64Value(ch) == (CHOOSE i \in 1..Len(B64Chars) : B64Chars[i] = ch) - 1

\* The decoder skips carriage returns and line feeds wherever they stand.
B64StripNewlines(s) == SelectSeq(s, LAMBDA ch : ch \notin {"\n", "\r"})

\* One group of four characters; last tells whether it ends the input, the
\* only place padding may stand.
B64Quantum(q, last) ==
    LET v(i) == B64Value(q[i])
        b1 == v(1) * 4 + (v(2) \div 16)
        b2 == (v(2) % 16) * 16 + (v(3) \div 4)
        b3 == (v(3) % 4) * 64 + v(4)
    IN  IF ~(IsB64(q[1]) /\ IsB64(q[2])) THEN [ok |-> FALSE, bytes |-> Empty]
        ELSE IF q[3] = B64Pad
        THEN IF last /\ q[4] = B64Pad
             THEN [ok |-> TRUE, bytes |-> <<b1>>]
             ELSE [ok |-> FALSE, bytes |-> Empty]
        ELSE IF ~IsB64(q[3]) THEN [ok |-> FALSE, bytes |-> Empty]
        ELSE IF q[4] = B64Pad
        THEN IF last
             THEN [ok |-> TRUE, bytes |-> <<b1, b2>>]
             ELSE [ok |-> FALSE, bytes |-> Empty]
        ELSE IF ~IsB64(q[4]) THEN [ok |-> FALSE, bytes |-> Empty]
        ELSE [ok |-> TRUE, bytes |-> <<b1, b2, b3>>]

RECURSIVE B64Groups(_)
B64Groups(s) ==
    IF Len(s) = 0 THEN [ok |-> TRUE, bytes |-> Empty]
    ELSE IF Len(s) < 4 THEN [ok |-> FALSE, bytes |-> Empty]
    ELSE LET head == B64Quantum(SubSeq(s, 1, 4), Len(s) = 4)
             tail == B64Groups(SubSeq(s, 5, Len(s)))
         IN  IF head.ok /\ tail.ok
             THEN [ok |-> TRUE, bytes |-> head.bytes \o tail.bytes]
             ELSE [ok |-> FALSE, bytes |-> Empty]

\* base64.StdEncoding.DecodeString: ok is FALSE where Go returns an error.
DecodeString(token) == B64Groups(B64StripNewlines(token))

\* ------------------------------------------------------------------ ecrCredentials

Callers == 1..NumCallers

\* A nil *time.Duration.
NoLifetime == [nil |-> TRUE, d |-> 0]
Unlocked == 0

\* time.Hour, in the unit of the clock.
Hour == 1
\* The zero time.Time of a fresh ecrCredentials.
ZeroTime == 0
\* ':' as a byte.
Colon == 58

\* cfg.Lifetime as configureECRAuth stores it: absent, zero, or a duration.
Lifetimes == {NoLifetime} \cup {[nil |-> FALSE, d |-> x] : x \in {0, 2}}

\* Authorization tokens the exchange can hand out: the base64 text of
\* "A:p", "A:p:w", "Ap", ":p", "A:", the empty token, text that is not base64.
Tokens ==
    { <<"Q","T","p","w">>,
      <<"Q","T","p","w","O","n","c","=">>,
      <<"Q","X","A","=">>,
      <<"O","n","A","=">>,
      <<"Q","T","o","=">>,
      <<>>,
      <<"Q","T","!","w">> }

\* The tokens above, decoded once.
DecodedTokens == [token \in Tokens |-> DecodeString(token)]

\* Line 65: base64.StdEncoding.DecodeString(*authData.AuthorizationToken).
DecodeToken(token) ==
    IF token \in Tokens THEN DecodedTokens[token] ELSE DecodeString(token)

\* The expiry times the issuer states.
ExpiresAts == {Hour, 2 + Hour}

AuthorizationData == [token : Tokens, expiresAt : ExpiresAts]

\* What GetAuthorizationToken returns: an error, or a list of records.
Responses ==
    {[returned |-> TRUE, err |-> TRUE, data |-> <<>>],
     [returned |-> TRUE, err |-> FALSE, data |-> <<>>]}
    \cup {[returned |-> TRUE, err |-> FALSE, data |-> <<d>>] : d \in AuthorizationData}

\* result before GetAuthorizationToken has returned.
NoResponse == [returned |-> FALSE, err |-> FALSE, data |-> <<>>]
\* ret before Basic has returned.
NoReturn == <<>>

\* The expiry test of line 40 written with After for Before.
CachedValid_After(t) ==
    /\ username # Empty
    /\ password # Empty
    /\ (lifetime.nil \/ t > expiry)

\* The condition of line 40, with t the time read into now.
CachedValid(t) ==
    /\ username # Empty
    /\ password # Empty
    /\ (lifetime.nil \/ t < expiry)

\* An expiry that takes the lifetime for a point in time.
NewExpiry_NotFromNow(t, expiresAt) ==
    IF ~lifetime.nil /\ lifetime.d > 0
    THEN lifetime.d
    ELSE expiresAt - Hour

\* An expiry without the margin of one hour.
NewExpiry_NoMargin(t, expiresAt) ==
    IF ~lifetime.nil /\ lifetime.d > 0
    THEN t + lifetime.d
    ELSE expiresAt

\* The expiry a refresh stores, lines 82-87.
NewExpiry(t, expiresAt) ==
    IF ~lifetime.nil /\ lifetime.d > 0
    THEN t + lifetime.d
    ELSE expiresAt - Hour

\* A failure return that wipes the stored credential.
RefreshFailed_ClearsFields ==
    [store |-> TRUE, username |-> Empty, password |-> Empty,
     expiry |-> ZeroTime, ret |-> <<Empty, Empty>>]

\* A failure return that hands out the cached fields.
RefreshFailed_ReturnsCached ==
    [store |-> FALSE, username |-> username, password |-> password,
     expiry |-> expiry, ret |-> <<username, password>>]

\* The failure returns of lines 53, 58, 69 and 75: return "", "" and assign
\* nothing.
RefreshFailed ==
    [store |-> FALSE, username |-> username, password |-> password,
     expiry |-> expiry, ret |-> <<Empty, Empty>>]

\* Lines 50-90: what Basic does with the answer r of GetAuthorizationToken, t
\* being the time read into now. store tells whether the fields are assigned.
Refresh(r, t) ==
    LET failed == RefreshFailed
    IN  IF r.err THEN failed
        ELSE IF Len(r.data) = 0 THEN failed
        ELSE LET authData == r.data[1]
                 decoded == DecodeToken(authData.token)
                 parts == SplitN2(decoded.bytes, Colon)
             IN  IF ~decoded.ok THEN failed
                 ELSE IF Len(parts) # 2 THEN failed
                 ELSE [store |-> TRUE, username |-> parts[1], password |-> parts[2],
                       expiry |-> NewExpiry(t, authData.expiresAt),
                       ret |-> <<parts[1], parts[2]>>]

\* A Lock that never blocks.
CanLock_NoMutex == TRUE

\* A mutex given up for the time of the GetAuthorizationToken call.
CanLock_FreeDuringExchange ==
    \/ m = Unlocked
    \/ \E c \in Callers : m = c /\ pc[c] = "exchange"

\* c.m.Lock() can return.
CanLock == m = Unlocked

\* The URLs, the service and the refresh token the token operations are
\* called with.
TokenURLs == {<<"a">>, <<"b">>}
TokenServices == {<<"s">>}
RefreshTokens == {<<"t">>}

\* tokenSet before SetRefreshToken is called, tokenResult before RefreshToken
\* is. afterSet tells whether SetRefreshToken had been called for the same URL
\* when RefreshToken was.
NeverSet == [called |-> FALSE, url |-> <<>>, service |-> <<>>, token |-> <<>>]
NeverAsked == [called |-> FALSE, url |-> <<>>, service |-> <<>>, afterSet |-> FALSE,
               v |-> <<>>]

\* A RefreshToken that hands back the token last set for the URL.
RefreshTokenValue_Stored(u, service) ==
    IF tokenSet.called /\ tokenSet.url = u THEN tokenSet.token ELSE Empty

\* Line 95: return "".
RefreshTokenValue(u, service) == Empty

\* A return of Basic that leaves the mutex as it is.
Unlock_Forgotten(c) == m

\* Line 37: the deferred c.m.Unlock() of caller c; the value of c.m after it.
Unlock(c) == IF m = c THEN Unlocked ELSE m

CredInit ==
    /\ lifetime \in Lifetimes
    /\ username = Empty
    /\ password = Empty
    /\ expiry = ZeroTime
    /\ m = Unlocked
    /\ clock = 0
    /\ pc = [c \in Callers |-> "idle"]
    /\ now = [c \in Callers |-> 0]
    /\ result = [c \in Callers |-> NoResponse]
    /\ ret = [c \in Callers |-> NoReturn]
    /\ exchanged = [c \in Callers |-> FALSE]
    /\ allStale = TRUE
    /\ first = [r |-> NoResponse, t |-> 0]
    /\ tokenSet = NeverSet
    /\ tokenResult = NeverAsked

\* The credential cache, unused.
CredIdle ==
    /\ lifetime = NoLifetime
    /\ username = Empty
    /\ password = Empty
    /\ expiry = ZeroTime
    /\ m = Unlocked
    /\ clock = 0
    /\ pc = [c \in Callers |-> "idle"]
    /\ now = [c \in Callers |-> 0]
    /\ result = [c \in Callers |-> NoResponse]
    /\ ret = [c \in Callers |-> NoReturn]
    /\ exchanged = [c \in Callers |-> FALSE]
    /\ allStale = TRUE
    /\ first = [r |-> NoResponse, t |-> 0]
    /\ tokenSet = NeverSet
    /\ tokenResult = NeverAsked

\* A goroutine calls Basic and reaches c.m.Lock().
Call(c) ==
    /\ pc[c] = "idle"
    /\ pc' = [pc EXCEPT ![c] = "lock"]
    /\ allStale' = (allStale /\ ~CachedValid(clock))
    /\ UNCHANGED <<lifetime, username, password, expiry, m, clock, now, result, ret,
                   exchanged, first>>
    /\ UNCHANGED notCredVars

\* Line 36: c.m.Lock() returns.
Lock(c) ==
    /\ pc[c] = "lock"
    /\ CanLock
    /\ m' = c
    /\ pc' = [pc EXCEPT ![c] = "check"]
    /\ UNCHANGED <<lifetime, username, password, expiry, clock, now, result, ret,
                   exchanged, allStale, first>>
    /\ UNCHANGED notCredVars

\* Lines 39-50: read the clock, then return the cached pair (the deferred
\* Unlock runs) or call GetAuthorizationToken.
Check(c) ==
    /\ pc[c] = "check"
    /\ IF CachedValid(clock)
       THEN /\ ret' = [ret EXCEPT ![c] = <<username, password>>]
            /\ pc' = [pc EXCEPT ![c] = "done"]
            /\ m' = Unlock(c)
            /\ UNCHANGED <<now, exchanged>>
       ELSE /\ now' = [now EXCEPT ![c] = clock]
            /\ pc' = [pc EXCEPT ![c] = "exchange"]
            /\ exchanged' = [exchanged EXCEPT ![c] = TRUE]
            /\ UNCHANGED <<ret, m>>
    /\ UNCHANGED <<lifetime, username, password, expiry, clock, result, allStale, first>>
    /\ UNCHANGED notCredVars

\* Line 50: GetAuthorizationToken returns r.
GetAuthorizationToken(c, r) ==
    /\ pc[c] = "exchange"
    /\ result' = [result EXCEPT ![c] = r]
    /\ pc' = [pc EXCEPT ![c] = "refresh"]
    /\ first' = IF ~first.r.returned THEN [r |-> r, t |-> now[c]] ELSE first
    /\ UNCHANGED <<lifetime, username, password, expiry, m, clock, now, ret,
                   exchanged, allStale>>
    /\ UNCHANGED notCredVars

\* Lines 51-91: Basic handles the answer, returns, and the deferred Unlock runs.
Finish(c) ==
    /\ pc[c] = "refresh"
    /\ LET out == Refresh(result[c], now[c])
       IN  /\ username' = out.username
           /\ password' = out.password
           /\ expiry' = out.expiry
           /\ ret' = [ret EXCEPT ![c] = out.ret]
    /\ pc' = [pc EXCEPT ![c] = "done"]
    /\ m' = Unlock(c)
    /\ now' = [now EXCEPT ![c] = 0]
    /\ result' = [result EXCEPT ![c] = NoResponse]
    /\ UNCHANGED <<lifetime, clock, exchanged, allStale, first>>
    /\ UNCHANGED notCredVars

\* Lines 94-96: RefreshToken(u, service) is called and returns; it takes no
\* lock and touches no field.
RefreshToken(u, service) ==
    /\ tokenResult' = [called |-> TRUE, url |-> u, service |-> service,
                       afterSet |-> (tokenSet.called /\ tokenSet.url = u),
                       v |-> RefreshTokenValue(u, service)]
    /\ tokenResult' # tokenResult
    /\ UNCHANGED tokenSet
    /\ UNCHANGED notTokenVars

\* Lines 99-100: SetRefreshToken(u, service, token) is called and returns; its
\* body is empty.
SetRefreshToken(u, service, token) ==
    /\ tokenSet' = [called |-> TRUE, url |-> u, service |-> service, token |-> token]
    /\ tokenSet' # tokenSet
    /\ UNCHANGED tokenResult
    /\ UNCHANGED notTokenVars

\* An hour passes.
Tick ==
    /\ clock < MaxClock
    /\ clock' = clock + 1
    /\ UNCHANGED <<lifetime, username, password, expiry, m, pc, now, result, ret,
                   exchanged, allStale, first>>
    /\ UNCHANGED notCredVars

\* ------------------------------------------------------------------ the import key pattern

\* The literal parts of the pattern of GetContent,
\* ^/docker/registry/v2/repositories/(.+)/_manifests/tags/(.+)/current/link$
KeyPrefix ==
    <<"/","d","o","c","k","e","r","/","r","e","g","i","s","t","r","y","/","v","2","/",
      "r","e","p","o","s","i","t","o","r","i","e","s","/">>

KeyMiddle == <<"/","_","m","a","n","i","f","e","s","t","s","/","t","a","g","s","/">>

KeySuffix == <<"/","c","u","r","r","e","n","t","/","l","i","n","k">>

\* The literal lit stands in s at position i.
LiteralAt(s, lit, i) ==
    /\ i >= 1
    /\ i + Len(lit) - 1 <= Len(s)
    /\ SubSeq(s, i, i + Len(lit) - 1) = lit

\* s is matched by .+ : it is not empty and holds no line feed.
DotPlus(s) == s # <<>> /\ \A i \in 1..Len(s) : s[i] # "\n"

\* The positions where KeyMiddle can stand in a match of the whole of s.
KeyMiddlePositions(s) ==
    { i \in 1..Len(s) :
        /\ LiteralAt(s, KeyPrefix, 1)
        /\ LiteralAt(s, KeyMiddle, i)
        /\ LiteralAt(s, KeySuffix, Len(s) - Len(KeySuffix) + 1)
        /\ i + Len(KeyMiddle) <= Len(s) - Len(KeySuffix) + 1
        /\ DotPlus(SubSeq(s, Len(KeyPrefix) + 1, i - 1))
        /\ DotPlus(SubSeq(s, i + Len(KeyMiddle), Len(s) - Len(KeySuffix))) }

\* regex.FindStringSubmatch(path): <<>> (nil) without a match, else the match
\* and its two groups. The first group is greedy: it takes the longest
\* repository that lets the rest match.
FindStringSubmatch(s) ==
    LET at == KeyMiddlePositions(s)
    IN  IF at = {} THEN <<>>
        ELSE LET i == CHOOSE x \in at : \A y \in at : y <= x
             IN  << s,
                    SubSeq(s, Len(KeyPrefix) + 1, i - 1),
                    SubSeq(s, i + Len(KeyMiddle), Len(s) - Len(KeySuffix)) >>

\* The store key of the current link of tag t of repository r.
ImportKey(r, t) == KeyPrefix \o r \o KeyMiddle \o t \o KeySuffix

\* ------------------------------------------------------------------ ecrFetcher

Requests == 1..NumRequests

\* d.remote and d.local, the options the middleware was built with.
Remote == <<"r">>
Local == <<"l">>

\* The nil error, the errors of the wrapped store, the error of a command.
NilErr == [kind |-> "nil", arg |-> <<>>]
StoreErrs == { [kind |-> "PathNotFoundError", arg |-> <<>>],
               [kind |-> "store error", arg |-> <<>>] }
ExecErr == [kind |-> "exit status 1", arg |-> <<>>]

\* What the wrapped StorageDriver.GetContent can return.
StoreResults ==
    {[out |-> b, err |-> NilErr] : b \in {"", "link"}}
    \cup {[out |-> "", err |-> e] : e \in StoreErrs}

\* What Run of a docker command can return.
ExecResults == {[out |-> "", err |-> NilErr], [out |-> "", err |-> ExecErr]}

\* Keys requested: the current link of a/b:1, a link whose tag part holds a
\* '/', a manifest revision key, a key cut short.
FetchPaths ==
    { ImportKey(<<"a","/","b">>, <<"1">>),
      ImportKey(<<"a">>, <<"1","/","2">>),
      KeyPrefix \o <<"a">> \o <<"/","_","m","a","n","i","f","e","s","t","s","/","r">>,
      KeyPrefix \o <<"a">> \o KeyMiddle \o <<"1">> \o <<"/","c","u","r","r","e","n","t">> }

\* A first read that is empty counts as a miss.
StoreHit_NonEmpty(res) == res.err = NilErr /\ res.out # ""

\* Line 45: err == nil.
StoreHit(res) == res.err = NilErr

\* The image is looked up on the local registry.
FullImage_Local(repo, tag) == Local \o <<"/">> \o repo \o <<":">> \o tag

\* Line 64: fullImage.
FullImage(repo, tag) == Remote \o <<"/">> \o repo \o <<":">> \o tag

\* Line 78: localTag.
LocalTag(repo, tag) == Local \o <<"/">> \o repo \o <<":">> \o tag

\* Line 54: fmt.Errorf("invalid path: %s", path).
InvalidPath(p) == [out |-> "", err |-> [kind |-> "invalid path: %s", arg |-> p]]

\* Line 58: fmt.Errorf("failed to pull from ECR: %v", err).
FailedToPull(e) ==
    [out |-> "", err |-> [kind |-> "failed to pull from ECR: %v", arg |-> <<e.kind>>]]

\* A failed second read is reported as a failed import.
SecondReadReturn_Wrapped(res) == IF res.err = NilErr THEN res ELSE FailedToPull(res.err)

\* Line 60: the second read's result is the result of GetContent.
SecondReadReturn(res) == res

NotReturned == [out |-> "", err |-> [kind |-> "not returned", arg |-> <<>>]]

FetchIdle ==
    /\ fpc = [q \in Requests |-> "idle"]
    /\ path = [q \in Requests |-> <<>>]
    /\ matches = [q \in Requests |-> <<>>]
    /\ ops = [q \in Requests |-> <<>>]
    /\ fret = [q \in Requests |-> NotReturned]

\* GetContent(ctx, p) is called.
GetContent(q, p) ==
    /\ fpc[q] = "idle"
    /\ fpc' = [fpc EXCEPT ![q] = "read"]
    /\ path' = [path EXCEPT ![q] = p]
    /\ UNCHANGED <<matches, ops, fret>>
    /\ UNCHANGED notFetchVars

\* Lines 44-56: the wrapped store answers res; on a miss the path is matched.
FirstRead(q, res) ==
    /\ fpc[q] = "read"
    /\ ops' = [ops EXCEPT ![q] = Append(@, [op |-> "GetContent", args |-> <<path[q]>>, res |-> res])]
    /\ IF StoreHit(res)
       THEN /\ fret' = [fret EXCEPT ![q] = [out |-> res.out, err |-> NilErr]]
            /\ fpc' = [fpc EXCEPT ![q] = "done"]
            /\ UNCHANGED matches
       ELSE LET found == FindStringSubmatch(path[q])
            IN  /\ matches' = [matches EXCEPT ![q] = found]
                /\ IF Len(found) # 3
                   THEN /\ fret' = [fret EXCEPT ![q] = InvalidPath(path[q])]
                        /\ fpc' = [fpc EXCEPT ![q] = "done"]
                   ELSE /\ fpc' = [fpc EXCEPT ![q] = "pull"]
                        /\ UNCHANGED fret
    /\ UNCHANGED path
    /\ UNCHANGED notFetchVars

\* A command that waits while another request imports the same repository
\* and tag.
Command_SingleFlight(q, at, op, args, next, res) ==
    /\ fpc[q] = at
    /\ \A o \in Requests \ {q} :
          ~(fpc[o] \in {"pull", "tag", "push"} /\ matches[o] = matches[q])
    /\ ops' = [ops EXCEPT ![q] = Append(@, [op |-> op, args |-> args, res |-> res])]
    /\ IF res.err # NilErr
       THEN /\ fret' = [fret EXCEPT ![q] = FailedToPull(res.err)]
            /\ fpc' = [fpc EXCEPT ![q] = "done"]
       ELSE /\ fpc' = [fpc EXCEPT ![q] = next]
            /\ UNCHANGED fret
    /\ UNCHANGED <<path, matches>>
    /\ UNCHANGED notFetchVars

\* A docker command of pullAndImportFromECR has run with result res: on an
\* error the function returns it and GetContent wraps it (lines 57-59).
Command(q, at, op, args, next, res) ==
    /\ fpc[q] = at
    /\ ops' = [ops EXCEPT ![q] = Append(@, [op |-> op, args |-> args, res |-> res])]
    /\ IF res.err # NilErr
       THEN /\ fret' = [fret EXCEPT ![q] = FailedToPull(res.err)]
            /\ fpc' = [fpc EXCEPT ![q] = "done"]
       ELSE /\ fpc' = [fpc EXCEPT ![q] = next]
            /\ UNCHANGED fret
    /\ UNCHANGED <<path, matches>>
    /\ UNCHANGED notFetchVars

\* Lines 70-75: docker pull fullImage.
Pull(q, res) ==
    Command(q, "pull", "pull", <<FullImage(matches[q][2], matches[q][3])>>, "tag", res)

\* Lines 78-84: docker tag fullImage localTag.
TagImage(q, res) ==
    Command(q, "tag", "tag",
            <<FullImage(matches[q][2], matches[q][3]), LocalTag(matches[q][2], matches[q][3])>>,
            "push", res)

\* Lines 86-91: docker push localTag.
Push(q, res) ==
    Command(q, "push", "push", <<LocalTag(matches[q][2], matches[q][3])>>, "retry", res)

\* Line 60: the wrapped store is read again and GetContent returns.
SecondRead(q, res) ==
    /\ fpc[q] = "retry"
    /\ ops' = [ops EXCEPT ![q] = Append(@, [op |-> "GetContent", args |-> <<path[q]>>, res |-> res])]
    /\ fret' = [fret EXCEPT ![q] = SecondReadReturn(res)]
    /\ fpc' = [fpc EXCEPT ![q] = "done"]
    /\ UNCHANGED <<path, matches>>
    /\ UNCHANGED notFetchVars

\* ------------------------------------------------------------------ the pattern on its own

\* All strings over chars of length 0..n.
StringsUpTo(chars, n) == UNION {[1..k -> chars] : k \in 0..n}

\* Repository and tag parts: short strings of a name character, '/' and a
\* line feed, and parts that hold a literal part of the pattern themselves.
KeyParts ==
    StringsUpTo({"a", "/", "\n"}, MaxPart)
    \cup { <<"a">> \o KeyMiddle \o <<"b">>, <<"a">> \o KeySuffix }

\* Keys: the shape itself, and the shape with a literal part cut short or
\* extended.
KeyInputs ==
    { pre \o r \o mid \o t \o suf :
        pre \in {KeyPrefix, <<"/">> \o KeyPrefix, Tail(KeyPrefix)},
        r \in KeyParts,
        mid \in {KeyMiddle, Tail(KeyMiddle)},
        t \in KeyParts,
        suf \in {KeySuffix, KeySuffix \o <<"/">>, SubSeq(KeySuffix, 1, Len(KeySuffix) - 1)} }

MatchIdle ==
    /\ key = <<>>
    /\ submatch = <<>>
    /\ matched = FALSE

MatchInputs ==
    /\ key \in KeyInputs
    /\ submatch = <<>>
    /\ matched = FALSE

\* Lines 51-52: matches := regex.FindStringSubmatch(path).
Match ==
    /\ ~matched
    /\ submatch' = FindStringSubmatch(key)
    /\ matched' = TRUE
    /\ UNCHANGED key
    /\ UNCHANGED notMatchVars

\* ------------------------------------------------------------------ registry URLs

Digits == {"0","1","2","3","4","5","6","7","8","9"}

Letters ==
    {"a","b","c","d","e","f","g","h","i","j","k","l","m","n","o","p","q","r","s","t",
     "u","v","w","x","y","z",
     "A","B","C","D","E","F","G","H","I","J","K","L","M","N","O","P","Q","R","S","T",
     "U","V","W","X","Y","Z"}

\* stringContainsCTLByte of net/url: the bytes below ' ' and DEL. A byte that
\* has no escape in a string is written as its code, "0x00" to "0xFF".
ControlChars ==
    {"0x00", "0x01", "0x02", "0x03", "0x04", "0x05", "0x06", "0x07",
     "0x08", "\t", "\n", "0x0B", "\f", "\r", "0x0E", "0x0F",
     "0x10", "0x11", "0x12", "0x13", "0x14", "0x15", "0x16", "0x17",
     "0x18", "0x19", "0x1A", "0x1B", "0x1C", "0x1D", "0x1E", "0x1F",
     "0x7F"}

\* The bytes from 0x80 on, of which the UTF-8 text of a character that is not
\* ASCII is made.
NonASCII ==
    {"0x80", "0x81", "0x82", "0x83", "0x84", "0x85", "0x86", "0x87",
     "0x88", "0x89", "0x8A", "0x8B", "0x8C", "0x8D", "0x8E", "0x8F",
     "0x90", "0x91", "0x92", "0x93", "0x94", "0x95", "0x96", "0x97",
     "0x98", "0x99", "0x9A", "0x9B", "0x9C", "0x9D", "0x9E", "0x9F",
     "0xA0", "0xA1", "0xA2", "0xA3", "0xA4", "0xA5", "0xA6", "0xA7",
     "0xA8", "0xA9", "0xAA", "0xAB", "0xAC", "0xAD", "0xAE", "0xAF",
     "0xB0", "0xB1", "0xB2", "0xB3", "0xB4", "0xB5", "0xB6", "0xB7",
     "0xB8", "0xB9", "0xBA", "0xBB", "0xBC", "0xBD", "0xBE", "0xBF",
     "0xC0", "0xC1", "0xC2", "0xC3", "0xC4", "0xC5", "0xC6", "0xC7",
     "0xC8", "0xC9", "0xCA", "0xCB", "0xCC", "0xCD", "0xCE", "0xCF",
     "0xD0", "0xD1", "0xD2", "0xD3", "0xD4", "0xD5", "0xD6", "0xD7",
     "0xD8", "0xD9", "0xDA", "0xDB", "0xDC", "0xDD", "0xDE", "0xDF",
     "0xE0", "0xE1", "0xE2", "0xE3", "0xE4", "0xE5", "0xE6", "0xE7",
     "0xE8", "0xE9", "0xEA", "0xEB", "0xEC", "0xED", "0xEE", "0xEF",
     "0xF0", "0xF1", "0xF2", "0xF3", "0xF4", "0xF5", "0xF6", "0xF7",
     "0xF8", "0xF9", "0xFA", "0xFB", "0xFC", "0xFD", "0xFE", "0xFF"}

RECURSIVE LastIndexOf(_, _, _)
\* Greatest i <= from with s[i] = ch, or 0.
LastIndexOf(s, ch, from) ==
    IF from < 1 THEN 0
    ELSE IF s[from] = ch THEN from
    ELSE LastIndexOf(s, ch, from - 1)

\* s up to a first ch; all of s without one.
CutBefore(s, ch) ==
    LET i == IndexFrom(s, ch, 1) IN IF i = 0 THEN s ELSE SubSeq(s, 1, i - 1)

HasPrefix(s, lit) == LiteralAt(s, lit, 1)

RECURSIVE SchemeEnd(_, _)
\* getScheme of net/url: the position of the ':' that ends a scheme, 0 when
\* the text has no scheme, -1 for the error "missing protocol scheme".
SchemeEnd(s, i) ==
    IF i > Len(s) THEN 0
    ELSE IF s[i] \in Letters THEN SchemeEnd(s, i + 1)
    ELSE IF s[i] \in Digits \cup {"+", "-", "."}
    THEN IF i = 1 THEN 0 ELSE SchemeEnd(s, i + 1)
    ELSE IF s[i] = ":"
    THEN IF i = 1 THEN -1 ELSE i
    ELSE 0

\* validOptionalPort of net/url: empty, or ':' and digits only.
ValidOptionalPort(p) ==
    \/ p = <<>>
    \/ p[1] = ":" /\ \A i \in 2..Len(p) : p[i] \in Digits

\* The ASCII characters net/url accepts unescaped in a host (shouldEscape
\* in the mode encodeHost).
HostChars ==
    Letters \cup Digits
    \cup {"-", "_", ".", "~", "!", "$", "&", "'", "(", ")", "*", "+", ",", ";", "=",
          ":", "[", "]", "<", ">", "\""}

\* validUserinfo of net/url: the characters accepted in userinfo.
UserinfoChars ==
    Letters \cup Digits
    \cup {"-", ".", "_", ":", "~", "!", "$", "&", "'", "(", ")", "*", "+", ",", ";",
          "=", "%", "@"}

\* The hexadecimal digits, by value.
HexLower == <<"0","1","2","3","4","5","6","7","8","9","a","b","c","d","e","f">>
HexUpper == <<"0","1","2","3","4","5","6","7","8","9","A","B","C","D","E","F">>

\* ishex and unhex of net/url.
IsHex(c) == \E v \in 1..16 : HexLower[v] = c \/ HexUpper[v] = c
Unhex(c) == (CHOOSE v \in 1..16 : HexLower[v] = c \/ HexUpper[v] = c) - 1

\* The 256 bytes in the order of their codes, each written as it is written
\* in a string of this module: as its code when a string cannot hold it.
ByteChars ==
    <<"0x00", "0x01", "0x02", "0x03", "0x04", "0x05", "0x06", "0x07",
       "0x08", "\t", "\n", "0x0B", "\f", "\r", "0x0E", "0x0F",
       "0x10", "0x11", "0x12", "0x13", "0x14", "0x15", "0x16", "0x17",
       "0x18", "0x19", "0x1A", "0x1B", "0x1C", "0x1D", "0x1E", "0x1F",
       " ", "!", "\"", "#", "$", "%", "&", "'",
       "(", ")", "*", "+", ",", "-", ".", "/",
       "0", "1", "2", "3", "4", "5", "6", "7",
       "8", "9", ":", ";", "<", "=", ">", "?",
       "@", "A", "B", "C", "D", "E", "F", "G",
       "H", "I", "J", "K", "L", "M", "N", "O",
       "P", "Q", "R", "S", "T", "U", "V", "W",
       "X", "Y", "Z", "[", "\\", "]", "^", "_",
       "0x60", "a", "b", "c", "d", "e", "f", "g",
       "h", "i", "j", "k", "l", "m", "n", "o",
       "p", "q", "r", "s", "t", "u", "v", "w",
       "x", "y", "z", "{", "|", "}", "~", "0x7F",
       "0x80", "0x81", "0x82", "0x83", "0x84", "0x85", "0x86", "0x87",
       "0x88", "0x89", "0x8A", "0x8B", "0x8C", "0x8D", "0x8E", "0x8F",
       "0x90", "0x91", "0x92", "0x93", "0x94", "0x95", "0x96", "0x97",
       "0x98", "0x99", "0x9A", "0x9B", "0x9C", "0x9D", "0x9E", "0x9F",
       "0xA0", "0xA1", "0xA2", "0xA3", "0xA4", "0xA5", "0xA6", "0xA7",
       "0xA8", "0xA9", "0xAA", "0xAB", "0xAC", "0xAD", "0xAE", "0xAF",
       "0xB0", "0xB1", "0xB2", "0xB3", "0xB4", "0xB5", "0xB6", "0xB7",
       "0xB8", "0xB9", "0xBA", "0xBB", "0xBC", "0xBD", "0xBE", "0xBF",
       "0xC0", "0xC1", "0xC2", "0xC3", "0xC4", "0xC5", "0xC6", "0xC7",
       "0xC8", "0xC9", "0xCA", "0xCB", "0xCC", "0xCD", "0xCE", "0xCF",
       "0xD0", "0xD1", "0xD2", "0xD3", "0xD4", "0xD5", "0xD6", "0xD7",
       "0xD8", "0xD9", "0xDA", "0xDB", "0xDC", "0xDD", "0xDE", "0xDF",
       "0xE0", "0xE1", "0xE2", "0xE3", "0xE4", "0xE5", "0xE6", "0xE7",
       "0xE8", "0xE9", "0xEA", "0xEB", "0xEC", "0xED", "0xEE", "0xEF",
       "0xF0", "0xF1", "0xF2", "0xF3", "0xF4", "0xF5", "0xF6", "0xF7",
       "0xF8", "0xF9", "0xFA", "0xFB", "0xFC", "0xFD", "0xFE", "0xFF">>

\* The byte an escape %XY stands for: unhex(X)<<4 | unhex(Y).
EscapedByte(x, y) == ByteChars[16 * Unhex(x) + Unhex(y) + 1]

RECURSIVE IndexOfLit(_, _, _)
\* strings.Index: the least i >= from where lit starts in s, or 0.
IndexOfLit(s, lit, from) ==
    IF from + Len(lit) - 1 > Len(s) THEN 0
    ELSE IF LiteralAt(s, lit, from) THEN from
    ELSE IndexOfLit(s, lit, from + 1)

RECURSIVE EscapeError(_, _, _)
\* The first loop of unescape of net/url, on s from position i, in one of
\* the modes encodePath, encodeUserPassword, encodeFragment, encodeHost,
\* encodeZone: whether s is refused. A '%' needs two hexadecimal digits after
\* it. In a host an escape stands for a byte from 0x80 on, or is %25; in a
\* zone it is %25 or stands for ' ' or for a byte a host may hold. A
\* character of a host or zone that is not escaped is refused when it is
\* ASCII and outside HostChars.
EscapeError(s, mode, i) ==
    IF i > Len(s) THEN FALSE
    ELSE IF s[i] = "%"
    THEN IF i + 2 > Len(s) \/ ~IsHex(s[i + 1]) \/ ~IsHex(s[i + 2]) THEN TRUE
         ELSE IF /\ mode = "encodeHost"
                 /\ Unhex(s[i + 1]) < 8
                 /\ <<s[i + 1], s[i + 2]>> # <<"2", "5">>
         THEN TRUE
         ELSE IF /\ mode = "encodeZone"
                 /\ <<s[i + 1], s[i + 2]>> # <<"2", "5">>
                 /\ EscapedByte(s[i + 1], s[i + 2]) # " "
                 /\ EscapedByte(s[i + 1], s[i + 2]) \notin HostChars
         THEN TRUE
         ELSE EscapeError(s, mode, i + 3)
    ELSE IF /\ mode \in {"encodeHost", "encodeZone"}
            /\ s[i] # "+"
            /\ s[i] \notin NonASCII
            /\ s[i] \notin HostChars
    THEN TRUE
    ELSE EscapeError(s, mode, i + 1)

RECURSIVE Unescaped(_, _)
\* The second loop of unescape, on s from position i: each escape replaced
\* by its byte. Outside a query a '+' stays a '+'.
Unescaped(s, i) ==
    IF i > Len(s) THEN <<>>
    ELSE IF s[i] = "%"
    THEN <<EscapedByte(s[i + 1], s[i + 2])>> \o Unescaped(s, i + 3)
    ELSE <<s[i]>> \o Unescaped(s, i + 1)

\* unescape of net/url.
Unescape(s, mode) ==
    IF EscapeError(s, mode, 1) THEN [err |-> TRUE, s |-> <<>>]
    ELSE [err |-> FALSE, s |-> Unescaped(s, 1)]

\* What url.Parse and the functions it calls return on an error, and a URL
\* without a host.
ParseError == [err |-> TRUE, Host |-> <<>>]
NoHost == [err |-> FALSE, Host |-> <<>>]

\* s after a first ch; nothing without one.
CutAfter(s, ch) ==
    LET i == IndexFrom(s, ch, 1) IN IF i = 0 THEN <<>> ELSE SubSeq(s, i + 1, Len(s))

\* s from a first ch on; nothing without one.
FromFirst(s, ch) ==
    LET i == IndexFrom(s, ch, 1) IN IF i = 0 THEN <<>> ELSE SubSeq(s, i, Len(s))

\* The end of parseHost: the host is what unescape returned, r.
UnescapedHost(r) == IF r.err THEN ParseError ELSE [err |-> FALSE, Host |-> r.s]

\* The end of parseHost for an IP literal with a zone: host1 + host2 + host3.
UnescapedZoneHost(r1, r2, r3) ==
    IF r1.err \/ r2.err \/ r3.err THEN ParseError
    ELSE [err |-> FALSE, Host |-> r1.s \o r2.s \o r3.s]

\* parseHost of net/url for a host that starts with '[', an IP literal, whose
\* last ']' is at bracket (0: none) and that has a first %25 before it at
\* zone (0: none). What follows the ']' is the port; from the %25 up to the
\* ']' the text is a zone.
ParseIPLiteral(host, bracket, zone) ==
    IF bracket = 0 THEN ParseError
    ELSE IF ~ValidOptionalPort(SubSeq(host, bracket + 1, Len(host))) THEN ParseError
    ELSE IF zone # 0
    THEN UnescapedZoneHost(Unescape(SubSeq(host, 1, zone - 1), "encodeHost"),
                           Unescape(SubSeq(host, zone, bracket - 1), "encodeZone"),
                           Unescape(SubSeq(host, bracket, Len(host)), "encodeHost"))
    ELSE UnescapedHost(Unescape(host, "encodeHost"))

\* parseHost of net/url for any other host, whose last ':' is at colon (0:
\* none): the port is what starts there.
ParseHostPort(host, colon) ==
    IF colon # 0 /\ ~ValidOptionalPort(SubSeq(host, colon, Len(host))) THEN ParseError
    ELSE UnescapedHost(Unescape(host, "encodeHost"))

\* parseHost of net/url.
ParseHost(host) ==
    IF HasPrefix(host, <<"[">>)
    THEN ParseIPLiteral(host, LastIndexOf(host, "]", Len(host)),
                        IndexOfLit(SubSeq(host, 1, LastIndexOf(host, "]", Len(host)) - 1),
                                   <<"%", "2", "5">>, 1))
    ELSE ParseHostPort(host, LastIndexOf(host, ":", Len(host)))

\* parseAuthority of net/url on userinfo whose first ':' is at colon (0:
\* none): whether it is refused. It must be valid, and the user name and the
\* password, the parts before and after that ':', are unescaped.
UserinfoError(userinfo, colon) ==
    IF \E k \in 1..Len(userinfo) : userinfo[k] \notin UserinfoChars THEN TRUE
    ELSE IF colon = 0 THEN Unescape(userinfo, "encodeUserPassword").err
    ELSE \/ Unescape(SubSeq(userinfo, 1, colon - 1), "encodeUserPassword").err
         \/ Unescape(SubSeq(userinfo, colon + 1, Len(userinfo)), "encodeUserPassword").err

\* parseAuthority of net/url on an authority whose last '@' is at i (0: none)
\* and whose host, what follows the '@', parsed as h.
ParseUserinfo(authority, i, h) ==
    IF h.err THEN ParseError
    ELSE IF i = 0 THEN h
    ELSE IF UserinfoError(SubSeq(authority, 1, i - 1),
                          IndexFrom(SubSeq(authority, 1, i - 1), ":", 1))
    THEN ParseError
    ELSE h

\* parseAuthority of net/url.
ParseAuthority(authority) ==
    ParseUserinfo(authority, LastIndexOf(authority, "@", Len(authority)),
                  ParseHost(SubSeq(authority, LastIndexOf(authority, "@", Len(authority)) + 1,
                                   Len(authority))))

\* The end of parse: setPath unescapes the path p of a URL whose authority
\* parsed as a.
SetPath(a, p) ==
    IF a.err THEN ParseError
    ELSE IF Unescape(p, "encodePath").err THEN ParseError
    ELSE a

\* parse of net/url after the scheme and the query are split off: with a
\* scheme, text that does not start with '/' is opaque; without one, its
\* first segment holds no ':'; an authority follows "//" and ends at the
\* next '/', where the path starts.
ParseRest(hasScheme, rest) ==
    IF ~HasPrefix(rest, <<"/">>) /\ hasScheme THEN NoHost
    ELSE IF ~HasPrefix(rest, <<"/">>) /\ IndexFrom(CutBefore(rest, "/"), ":", 1) # 0
    THEN ParseError
    ELSE IF /\ hasScheme \/ ~HasPrefix(rest, <<"/", "/", "/">>)
            /\ HasPrefix(rest, <<"/", "/">>)
    THEN SetPath(ParseAuthority(CutBefore(SubSeq(rest, 3, Len(rest)), "/")),
                 FromFirst(SubSeq(rest, 3, Len(rest)), "/"))
    ELSE SetPath(NoHost, rest)

\* parse of net/url from getScheme on; colon is what SchemeEnd gave.
ParseScheme(rawURL, colon) ==
    IF colon = -1 THEN ParseError
    ELSE IF colon > 0
    THEN ParseRest(TRUE, CutBefore(SubSeq(rawURL, colon + 1, Len(rawURL)), "?"))
    ELSE ParseRest(FALSE, CutBefore(rawURL, "?"))

\* parse of net/url (viaRequest false), as far as it decides the error and
\* the Host field. A control byte is an error; "*" is a URL.
parse(rawURL) ==
    IF \E k \in 1..Len(rawURL) : rawURL[k] \in ControlChars THEN ParseError
    ELSE IF rawURL = <<"*">> THEN NoHost
    ELSE ParseScheme(rawURL, SchemeEnd(rawURL, 1))

\* The end of url.Parse: setFragment unescapes a fragment that is not empty,
\* of a URL that parsed as u.
SetFragment(u, frag) ==
    IF u.err THEN ParseError
    ELSE IF frag # <<>> /\ Unescape(frag, "encodeFragment").err THEN ParseError
    ELSE u

\* url.Parse, as far as it decides the error and the Host field: the text
\* before a first '#' is parsed, what follows it is the fragment.
ParseURL(rawURL) == SetFragment(parse(CutBefore(rawURL, "#")), CutAfter(rawURL, "#"))

\* The literal parts of ecrURLPattern,
\* ^(\d+)\.dkr\.ecr\.([^.]+)\.amazonaws\.com$
DkrEcr == <<".","d","k","r",".","e","c","r",".">>
AmazonawsCom == <<".","a","m","a","z","o","n","a","w","s",".","c","o","m">>

RECURSIVE RunOf(_, _, _)
\* The length of the longest run of characters of class from position i.
RunOf(s, class, i) ==
    IF i > Len(s) \/ s[i] \notin class THEN 0
    ELSE 1 + RunOf(s, class, i + 1)

RECURSIVE RunUntil(_, _, _)
\* The length of the longest run of characters other than ch from position i.
RunUntil(s, ch, i) ==
    IF i > Len(s) \/ s[i] = ch THEN 0
    ELSE 1 + RunUntil(s, ch, i + 1)

\* ecrURLPattern on host, from its start: <<>> without a match, else the
\* match and its two groups. toEnd is the '$' of the pattern. Each group is
\* followed by a '.', which it cannot hold, so each takes its whole run.
PatternSubmatch(host, toEnd) ==
    LET n == RunOf(host, Digits, 1)
        r == RunUntil(host, ".", n + Len(DkrEcr) + 1)
        stop == n + Len(DkrEcr) + r + Len(AmazonawsCom)
    IN  IF /\ n >= 1
           /\ LiteralAt(host, DkrEcr, n + 1)
           /\ r >= 1
           /\ LiteralAt(host, AmazonawsCom, n + Len(DkrEcr) + r + 1)
           /\ (toEnd => stop = Len(host))
        THEN << SubSeq(host, 1, stop),
                SubSeq(host, 1, n),
                SubSeq(host, n + Len(DkrEcr) + 1, n + Len(DkrEcr) + r) >>
        ELSE <<>>

\* Line 22: ecrURLPattern.FindStringSubmatch and ecrURLPattern.MatchString.
EcrFindStringSubmatch(host) == PatternSubmatch(host, TRUE)
EcrMatchString(host) == PatternSubmatch(host, TRUE) # <<>>

\* Lines 103-115.
parseECRURL(url) ==
    LET u == ParseURL(url)
        found == EcrFindStringSubmatch(u.Host)
    IN  IF u.err THEN [accountID |-> <<>>, region |-> <<>>, err |-> TRUE]
        ELSE IF Len(found) # 3 THEN [accountID |-> <<>>, region |-> <<>>, err |-> TRUE]
        ELSE [accountID |-> found[2], region |-> found[3], err |-> FALSE]

\* isECRURL with a pattern that lacks the closing '$'.
isECRURL_Unanchored(url) ==
    LET u == ParseURL(url)
    IN  IF u.err THEN FALSE ELSE PatternSubmatch(u.Host, FALSE) # <<>>

\* Lines 168-174.
isECRURL(url) ==
    LET u == ParseURL(url)
    IN  IF u.err THEN FALSE ELSE EcrMatchString(u.Host)

\* Account and region labels tried.
Accounts == StringsUpTo({"1", "a"}, MaxLabel)
Regions == StringsUpTo({"w", "."}, MaxLabel)

\* Hosts: an account label, ".dkr.ecr.", a region label and a domain; a
\* registry that is not ECR; a region that is the two bytes of a character
\* outside ASCII.
Hosts ==
    { a \o DkrEcr \o r \o d :
        a \in Accounts, r \in Regions,
        d \in {AmazonawsCom, AmazonawsCom \o <<".","c","n">>, <<".","c","o","m">>} }
    \cup { <<"r","e","g","i","s","t","r","y","-","1",".","d","o","c","k","e","r",".","i","o">>,
           <<"1","1">> \o DkrEcr \o <<"0xC3","0xA9">> \o AmazonawsCom }

\* Regions written with escapes: %25 and the two bytes of a character
\* outside ASCII, which a host may hold; an ASCII letter, a '.', an escape
\* that is not hexadecimal and one cut short, which it may not.
EscapedRegions ==
    { <<"%","2","5">>, <<"%","C","3","%","A","9">>, <<"%","c","3","%","a","9">>,
      <<"w","%","2","5">>, <<"%","4","1">>, <<"%","2","E">>, <<"%","z","z">>,
      <<"%","C">>, <<"%">> }

\* Hosts with '%' or '[': an ECR registry with each region above; IP
\* literals with and without a zone, one without its ']', one with text
\* after the ']' that is not a port.
SpecialHosts ==
    { <<"1","1">> \o DkrEcr \o r \o AmazonawsCom : r \in EscapedRegions }
    \cup { <<"[",":",":","1","]">>,
           <<"[">>,
           <<"[",":",":","1">>,
           <<"[",":",":","1","]","x">>,
           <<"[",":",":","1","%","2","5","e","n","0","]">>,
           <<"[",":",":","1","%","2","5","e","%","2","0","n","]">>,
           <<"[",":",":","1","%","2","5","e","%","2","F","n","]">>,
           <<"[",":",":","1","%","2","5","e","%","C","3","]">>,
           <<"[",":",":","%","4","1","%","2","5","e","]">>,
           <<"[",":",":","1","%","2","5","e","]","%","4","1">> }

\* Ends of a URL that hold a control byte: in the path, in the host, in the
\* fragment.
ControlTails ==
    { <<"/","\f">>, <<"/","x","0x7F">>, <<"\n">>, <<"#","\n">>, <<"/","#","\t">>,
      <<"?","0x00">> }

\* Ends of a URL that hold an escape, well formed or not: in the path, in
\* the fragment, in the query.
EscapeTails ==
    { <<"/","%","z","z">>, <<"/","%">>, <<"/","a","%","4">>, <<"/","%","4","1">>,
      <<"/","%","2","5">>, <<"#","%","z","z">>, <<"#","%","4","1">>, <<"#">>,
      <<"/","x","#","%">>, <<"?","%","z","z">>, <<"?","q","#","%","z","z">> }

\* Userinfo with an escape, well formed or not, in the user name and in the
\* password, and userinfo with a character that is not accepted.
Userinfos ==
    { <<"%","z","z","@">>, <<"%","4","1","@">>, <<"u",":","%","z","z","@">>,
      <<"u",":","%","4","1","@">>, <<"%",":","p","@">>, <<"u"," ","@">>,
      <<"u",":","p",":","%","2","5","@">> }

\* The URL of an ECR registry, account 11 and region w.
RegistryURL ==
    <<"h","t","t","p","s",":","/","/">> \o <<"1","1">> \o DkrEcr \o <<"w">> \o AmazonawsCom

\* URLs: with and without scheme and "//", userinfo, port, path, query; an
\* ECR registry URL followed by each of the ends above, and with each
\* userinfo above; each host with '%' or '[', with and without port and path;
\* a URL that is one '*', with and without a fragment, and opaque ones.
URLs ==
    { scheme \o user \o h \o port \o rest :
        scheme \in { <<"h","t","t","p","s",":","/","/">>, <<"/","/">>, <<>>,
                     <<"h","t","t","p","s",":">> },
        user \in { <<>>, <<"u","@">> },
        h \in Hosts,
        port \in { <<>>, <<":","4","4","3">>, <<":","x">> },
        rest \in { <<>>, <<"/","m","y","-","r","e","p","o">>, <<"?","q">> } }
    \cup { <<"n","o","t","-","a","-","u","r","l">> }
    \cup { RegistryURL \o tail : tail \in ControlTails \cup EscapeTails }
    \cup { <<"h","t","t","p","s",":","/","/">> \o user \o <<"1","1">> \o DkrEcr \o <<"w">>
               \o AmazonawsCom : user \in Userinfos }
    \cup { scheme \o h \o port \o rest :
             scheme \in { <<"h","t","t","p","s",":","/","/">>, <<>> },
             h \in SpecialHosts,
             port \in { <<>>, <<":","4","4","3">> },
             rest \in { <<>>, <<"/","m","y","-","r","e","p","o">> } }
    \cup { <<"*">>, <<"*","#","%","z","z">>, <<"*","?","q">>,
           <<"h","t","t","p","s",":","%","z","z">>, <<":","/","/","x">>,
           <<"/","/","/","%","z","z">>, <<"h","t","t","p","s",":","/","%","z","z">> }

NotCalled == [called |-> FALSE, v |-> FALSE]
NotParsed == [called |-> FALSE, accountID |-> <<>>, region |-> <<>>, err |-> FALSE]

URLIdle ==
    /\ registryURL = <<>>
    /\ isECR = NotCalled
    /\ parsed = NotParsed

URLInputs ==
    /\ registryURL \in URLs
    /\ isECR = NotCalled
    /\ parsed = NotParsed

\* isECRURL(registryURL) is called.
CallIsECRURL ==
    /\ ~isECR.called
    /\ isECR' = [called |-> TRUE, v |-> isECRURL(registryURL)]
    /\ UNCHANGED <<registryURL, parsed>>
    /\ UNCHANGED notURLVars

\* parseECRURL(registryURL) is called.
CallParseECRURL ==
    /\ ~parsed.called
    /\ parsed' = [called |-> TRUE] @@ parseECRURL(registryURL)
    /\ UNCHANGED <<registryURL, isECR>>
    /\ UNCHANGED notURLVars

URLNext == CallIsECRURL \/ CallParseECRURL

\* ------------------------------------------------------------------ configureECRAuth

\* The configurations given: AccountID and Region empty or set, the three ways
\* of naming AWS credentials, every lifetime.
AccountIDs == {Empty, <<"2", "2">>}
RegionNames == {Empty, <<"e">>}
Cfgs ==
    [AccountID : AccountIDs, Region : RegionNames,
     AccessKeyID : {Empty, <<"k">>}, SecretAccessKey : {Empty, <<"x">>},
     Profile : {Empty, <<"p">>}, Lifetime : Lifetimes]

\* The remote URLs given: two ECR registries, one with a path, a registry
\* that is not ECR, an account that is not a number, a port that is not a
\* number, a string without scheme, a path with a control byte, a fragment
\* with one, a path, a fragment and userinfo with an escape that is not
\* hexadecimal, a region that is an escaped '%', an IP literal.
RemoteURLs ==
    { <<"h","t","t","p","s",":","/","/">> \o <<"1","1">> \o DkrEcr \o <<"w">> \o AmazonawsCom,
      <<"h","t","t","p","s",":","/","/">> \o <<"1","1">> \o DkrEcr \o <<"w">> \o AmazonawsCom
          \o <<"/","m","y","-","r","e","p","o">>,
      <<"h","t","t","p","s",":","/","/">>
          \o <<"r","e","g","i","s","t","r","y","-","1",".","d","o","c","k","e","r",".","i","o">>,
      <<"h","t","t","p","s",":","/","/">> \o <<"a","1">> \o DkrEcr \o <<"w">> \o AmazonawsCom,
      <<"h","t","t","p","s",":","/","/">> \o <<"1","1">> \o DkrEcr \o <<"w">> \o AmazonawsCom
          \o <<":","x">>,
      <<"n","o","t","-","a","-","u","r","l">>,
      <<"h","t","t","p","s",":","/","/">> \o <<"1","1">> \o DkrEcr \o <<"w">> \o AmazonawsCom
          \o <<"/","\f">>,
      <<"h","t","t","p","s",":","/","/">> \o <<"1","1">> \o DkrEcr \o <<"w">> \o AmazonawsCom
          \o <<"#","\n">>,
      RegistryURL \o <<"/","%","z","z">>,
      RegistryURL \o <<"#","%","z","z">>,
      <<"h","t","t","p","s",":","/","/","%","z","z","@">> \o <<"1","1">> \o DkrEcr \o <<"w">>
          \o AmazonawsCom,
      <<"h","t","t","p","s",":","/","/">> \o <<"1","1">> \o DkrEcr \o <<"%","2","5">>
          \o AmazonawsCom,
      <<"h","t","t","p","s",":","/","/","[",":",":","1","]">> }

\* A nil auth.CredentialStore, and the aws.Config before it is built.
NilStore == [nil |-> TRUE, registryID |-> <<>>, lifetime |-> NoLifetime]
NoConfig == [built |-> FALSE, Region |-> <<>>, Credentials |-> "none"]
NotConfigured == [called |-> FALSE, err |-> "nil", store |-> NilStore, config |-> NoConfig]

\* Lines 142-151: the credentials put into the aws.Config.
ConfigCredentials(c) ==
    IF c.AccessKeyID # Empty /\ c.SecretAccessKey # Empty THEN "static"
    ELSE IF c.Profile # Empty THEN "shared"
    ELSE "chain"

\* A configureECRAuth that prefers what the URL says over what cfg says.
configureECRAuth_ParsedFirst(c, url, sessionErr) ==
    LET p == parseECRURL(url)
        accountID == IF ~p.err THEN p.accountID ELSE c.AccountID
        region == IF ~p.err THEN p.region ELSE c.Region
        config == [built |-> TRUE, Region |-> region, Credentials |-> ConfigCredentials(c)]
    IN  IF (c.AccountID = Empty \/ c.Region = Empty) /\ p.err
        THEN [err |-> "failed to parse ECR URL %s: %v", store |-> NilStore, config |-> NoConfig]
        ELSE IF sessionErr
        THEN [err |-> "failed to create AWS session: %v", store |-> NilStore, config |-> config]
        ELSE [err |-> "nil",
              store |-> [nil |-> FALSE, registryID |-> accountID, lifetime |-> c.Lifetime],
              config |-> config]

\* Lines 118-165; sessionErr tells whether session.NewSession fails.
configureECRAuth(c, url, sessionErr) ==
    LET needed == c.AccountID = Empty \/ c.Region = Empty
        p == parseECRURL(url)
        accountID == IF needed /\ c.AccountID = Empty THEN p.accountID ELSE c.AccountID
        region == IF needed /\ c.Region = Empty THEN p.region ELSE c.Region
        config == [built |-> TRUE, Region |-> region, Credentials |-> ConfigCredentials(c)]
    IN  IF needed /\ p.err
        THEN [err |-> "failed to parse ECR URL %s: %v", store |-> NilStore, config |-> NoConfig]
        ELSE IF sessionErr
        THEN [err |-> "failed to create AWS session: %v", store |-> NilStore, config |-> config]
        ELSE [err |-> "nil",
              store |-> [nil |-> FALSE, registryID |-> accountID, lifetime |-> c.Lifetime],
              config |-> config]

\* configureECRAuth not in use.
ConfIdle ==
    /\ cfg = [AccountID |-> Empty, Region |-> Empty, AccessKeyID |-> Empty,
              SecretAccessKey |-> Empty, Profile |-> Empty, Lifetime |-> NoLifetime]
    /\ remoteURL = <<>>
    /\ configured = NotConfigured

ConfInputs ==
    /\ cfg \in Cfgs
    /\ remoteURL \in RemoteURLs
    /\ configured = NotConfigured

\* configureECRAuth(cfg, remoteURL) is called and returns.
Configure(sessionErr) ==
    /\ ~configured.called
    /\ configured' = [called |-> TRUE] @@ configureECRAuth(cfg, remoteURL, sessionErr)
    /\ UNCHANGED <<cfg, remoteURL>>
    /\ UNCHANGED notConfVars

\* The specification of configureECRAuth.
ConfInit == ConfInputs /\ CredIdle /\ FetchIdle /\ MatchIdle /\ URLIdle

ConfNext == \E sessionErr \in BOOLEAN : Configure(sessionErr)

SpecConf == ConfInit /\ [][ConfNext]_vars

\* The specification of the URL classifier.
URLInit == URLInputs /\ CredIdle /\ FetchIdle /\ MatchIdle /\ ConfIdle

SpecURL == URLInit /\ [][URLNext]_vars

FetchInit == FetchIdle /\ CredIdle /\ MatchIdle /\ URLIdle /\ ConfIdle

FetchNext ==
    \/ \E q \in Requests, p \in FetchPaths : GetContent(q, p)
    \/ \E q \in Requests, res \in StoreResults : FirstRead(q, res)
    \/ \E q \in Requests, res \in ExecResults : Pull(q, res)
    \/ \E q \in Requests, res \in ExecResults : TagImage(q, res)
    \/ \E q \in Requests, res \in ExecResults : Push(q, res)
    \/ \E q \in Requests, res \in StoreResults : SecondRead(q, res)

\* The specification of ecrFetcher.
SpecFetch == FetchInit /\ [][FetchNext]_vars

\* The specification of the import key pattern.
MatchInit == MatchInputs /\ CredIdle /\ FetchIdle /\ URLIdle /\ ConfIdle

MatchNext == Match

SpecMatch == MatchInit /\ [][MatchNext]_vars

Init == CredInit /\ FetchIdle /\ MatchIdle /\ URLIdle /\ ConfIdle

Next ==
    \/ \E c \in Callers : Call(c)
    \/ \E c \in Callers : Lock(c)
    \/ \E c \in Callers : Check(c)
    \/ \E c \in Callers, r \in Responses : GetAuthorizationToken(c, r)
    \/ \E c \in Callers : Finish(c)
    \/ Tick

Spec == Init /\ [][Next]_vars

\* The credential cache with its scheduling: a caller that can go on does
\* (the goroutine runs), every GetAuthorizationToken call returns, and a
\* caller that can take the mutex again and again gets it (sync.Mutex hands
\* the lock to a starving waiter). The clock stands still: the time read at
\* line 39 only chooses between the two branches of line 40, and both are
\* taken at hour 0 (under a lifetime of zero a token that expires within the
\* hour is stored already expired).
LiveInit == CredInit /\ FetchIdle /\ MatchIdle /\ URLIdle /\ ConfIdle

LiveNext ==
    \/ \E c \in Callers : Call(c)
    \/ \E c \in Callers : Lock(c)
    \/ \E c \in Callers : Check(c)
    \/ \E c \in Callers, r \in Responses : GetAuthorizationToken(c, r)
    \/ \E c \in Callers : Finish(c)

Fairness ==
    \A c \in Callers :
        /\ SF_vars(Lock(c))
        /\ WF_vars(Check(c))
        /\ WF_vars(\E r \in Responses : GetAuthorizationToken(c, r))
        /\ WF_vars(Finish(c))

SpecLive == LiveInit /\ [][LiveNext]_vars /\ Fairness

\* The specification of the refresh-token operations: RefreshToken and
\* SetRefreshToken called at any moment before, during and after the calls of
\* Basic. Neither reads the clock, which stands still here.
TokenInit == CredInit /\ FetchIdle /\ MatchIdle /\ URLIdle /\ ConfIdle

TokenNext ==
    \/ \E c \in Callers : Call(c)
    \/ \E c \in Callers : Lock(c)
    \/ \E c \in Callers : Check(c)
    \/ \E c \in Callers, r \in Responses : GetAuthorizationToken(c, r)
    \/ \E c \in Callers : Finish(c)
    \/ \E u \in TokenURLs, service \in TokenServices : RefreshToken(u, service)
    \/ \E u \in TokenURLs, service \in TokenServices, token \in RefreshTokens :
          SetRefreshToken(u, service, token)

SpecTokens == TokenInit /\ [][TokenNext]_vars

\* ------------------------------------------------------------------ properties of Basic

AllDone == \A c \in Callers : pc[c] = "done"

\* The number of GetAuthorizationToken calls made.
Calls == Cardinality({c \in Callers : exchanged[c]})

\* What the first GetAuthorizationToken call made Basic store.
FirstRefresh == Refresh(first.r, first.t)

\* The first call succeeded and the credential it stored is one the cache
\* still accepts: both parts non-empty, and not expired if a lifetime is set.
FirstRefreshStillValid ==
    /\ first.r.returned
    /\ FirstRefresh.store
    /\ FirstRefresh.username # Empty
    /\ FirstRefresh.password # Empty
    /\ (lifetime.nil \/ clock < FirstRefresh.expiry)

\* C1 as stated: when all callers entered Basic while the cache was stale,
\* exactly one GetAuthorizationToken call is made in total.
C1_SingleFlight ==
    (AllDone /\ allStale) => Calls = 1

\* C1, amended: when all callers entered Basic while the cache was stale and
\* the first GetAuthorizationToken call succeeded and stored a credential that
\* stays valid until all have returned, exactly one call is made in total and
\* every caller returns the pair that refresh stored.
C1_SingleFlightOnSuccess ==
    (AllDone /\ allStale /\ FirstRefreshStillValid)
        => /\ Calls = 1
           /\ \A c \in Callers :
                ret[c] = <<FirstRefresh.username, FirstRefresh.password>>

C1_Witness ==
    /\ AllDone
    /\ allStale
    /\ FirstRefreshStillValid
    /\ Calls = 1
    /\ \E c \in Callers : ~exchanged[c] /\ ret[c] = <<username, password>>

\* C2: a call of Basic that reads a time not before the stored expiry does not
\* reuse the cached credential: it calls GetAuthorizationToken.
C2_ExpiryForcesRefresh ==
    [][\A c \in Callers :
          (pc[c] = "check" /\ pc'[c] # "check" /\ clock >= expiry)
              => (pc'[c] = "exchange" /\ exchanged'[c])]_vars

\* Valid as the claim of reuse words it: both parts non-empty and the time
\* before the stored expiry.
ValidBeforeExpiry ==
    /\ username # Empty
    /\ password # Empty
    /\ clock < expiry

\* C3: a call of Basic made while username and password are non-empty and the
\* time is before the stored expiry returns the stored pair, makes no
\* GetAuthorizationToken call and leaves username, password, expiry unchanged.
C3_ValidReuse ==
    [][\A c \in Callers :
          (pc[c] = "check" /\ pc'[c] # "check" /\ ValidBeforeExpiry)
              => /\ pc'[c] = "done"
                 /\ ret'[c] = <<username, password>>
                 /\ ~exchanged'[c]
                 /\ username' = username
                 /\ password' = password
                 /\ expiry' = expiry]_vars

\* A call has reused a credential that a lifetime keeps valid.
C3_Witness ==
    /\ ~lifetime.nil
    /\ ValidBeforeExpiry
    /\ \E c \in Callers :
          pc[c] = "done" /\ ~exchanged[c] /\ ret[c] = <<username, password>>

\* The ways a GetAuthorizationToken answer fails: the call errs, it holds no
\* record, its token is not base64, or the decoded token has no ':'.
ExchangeFailed(r) ==
    \/ r.err
    \/ Len(r.data) = 0
    \/ ~DecodeString(r.data[1].token).ok
    \/ Len(SplitN2(DecodeString(r.data[1].token).bytes, Colon)) # 2

\* C4: when the exchange fails in any of these ways, Basic returns ("", "").
C4_FailureReturnsEmpty ==
    [][\A c \in Callers :
          (pc[c] = "refresh" /\ pc'[c] # "refresh" /\ ExchangeFailed(result[c]))
              => (pc'[c] = "done" /\ ret'[c] = <<Empty, Empty>>)]_vars

\* A failed refresh returned the empty pair although a credential is cached.
C4_Witness ==
    \E c \in Callers :
        /\ pc[c] = "done"
        /\ exchanged[c]
        /\ ret[c] = <<Empty, Empty>>
        /\ username # Empty
        /\ password # Empty

\* The GetAuthorizationToken answer r holds a record whose token decodes.
Decodes(r) ==
    /\ ~r.err
    /\ Len(r.data) > 0
    /\ DecodeString(r.data[1].token).ok

\* The decoded token of such an answer.
DecodedToken(r) == DecodeString(r.data[1].token).bytes

\* The positions of ':' in the byte string b.
ColonsOf(b) == {i \in 1..Len(b) : b[i] = Colon}

\* The place of the first ':' of a byte string that holds one.
FirstColon(b) == CHOOSE i \in ColonsOf(b) : \A j \in ColonsOf(b) : i <= j

\* C11: when the decoded token holds at least one ':', the refresh stores and
\* returns as username the bytes before the first ':' and as password all the
\* bytes after it, further colons included.
C11_SplitOnFirstColon ==
    [][\A c \in Callers :
          (/\ pc[c] = "refresh" /\ pc'[c] # "refresh"
           /\ Decodes(result[c])
           /\ ColonsOf(DecodedToken(result[c])) # {})
              => LET b == DecodedToken(result[c])
                     i == FirstColon(b)
                 IN  /\ username' = SubSeq(b, 1, i - 1)
                     /\ password' = SubSeq(b, i + 1, Len(b))
                     /\ ret'[c] = <<username', password'>>]_vars

\* A refresh of the token "A:p:w" has stored and returned "A" and "p:w".
C11_Witness ==
    /\ username = <<65>>
    /\ password = <<112, Colon, 119>>
    /\ \E c \in Callers :
          pc[c] = "done" /\ exchanged[c] /\ ret[c] = <<username, password>>

\* Caller c takes the step that ends a refresh whose exchange, decode and
\* split all succeeded.
SuccessfulRefreshStep(c) ==
    /\ pc[c] = "refresh"
    /\ pc'[c] # "refresh"
    /\ ~ExchangeFailed(result[c])

\* C12 as stated: a successful refresh stores the time read at the start of
\* the call plus the lifetime whenever a lifetime is configured, whatever its
\* value, and the token's stated expiry minus one hour when none is.
C12_ExpiryAnyLifetime ==
    [][\A c \in Callers :
          SuccessfulRefreshStep(c)
              => expiry' = IF ~lifetime.nil
                           THEN now[c] + lifetime.d
                           ELSE result[c].data[1].expiresAt - Hour]_vars

\* C12, amended: a successful refresh stores the time read at the start of the
\* call plus the lifetime when a lifetime greater than zero is configured;
\* when none is configured, or one that is not greater than zero, it stores
\* the token's stated expiry minus one hour.
C12_ExpiryPositiveLifetime ==
    [][\A c \in Callers :
          SuccessfulRefreshStep(c)
              => expiry' = IF ~lifetime.nil /\ lifetime.d > 0
                           THEN now[c] + lifetime.d
                           ELSE result[c].data[1].expiresAt - Hour]_vars

\* A refresh that began at time 1 under a lifetime of two hours has stored
\* the expiry 3, which no stated expiry minus one hour equals.
C12_Witness ==
    /\ ~lifetime.nil
    /\ lifetime.d = 2
    /\ expiry = 1 + 2
    /\ \A e \in ExpiresAts : e - Hour # expiry
    /\ \E c \in Callers : pc[c] = "done" /\ exchanged[c] /\ ret[c] = <<username, password>>

\* What a call of Basic that returns in this step returns, as the credential
\* fields, the clock and the exchange answer alone determine it.
BasicResult(c) ==
    IF pc[c] = "check" THEN <<username, password>>
    ELSE Refresh(result[c], now[c]).ret

\* C14: RefreshToken returns the empty string for every URL and service, also
\* when SetRefreshToken was called for the same URL before; a step of either
\* operation changes nothing of the credential cache (fields, mutex, callers),
\* and what a call of Basic returns is determined by the credential fields and
\* the exchange answer whatever the two operations were called with.
C14_RefreshTokenNoOp ==
    [][/\ tokenResult'.called => tokenResult'.v = Empty
       /\ (tokenVars' # tokenVars) => UNCHANGED notTokenVars
       /\ \A c \in Callers :
             (pc[c] # "done" /\ pc'[c] = "done") => ret'[c] = BasicResult(c)]_vars

\* SetRefreshToken stored a token for a URL, RefreshToken for that URL then
\* returned "", and a call of Basic has since returned the cached credential.
C14_Witness ==
    /\ tokenSet.called
    /\ tokenResult.called
    /\ tokenResult.afterSet
    /\ tokenResult.url = tokenSet.url
    /\ tokenResult.v = Empty
    /\ username # Empty
    /\ \E c \in Callers : pc[c] = "done" /\ ~exchanged[c] /\ ret[c] = <<username, password>>

\* Caller c is between the return of c.m.Lock() and the return of Basic.
InCriticalSection(c) == pc[c] \in {"check", "exchange", "refresh"}

\* C16: at most one caller of Basic is between lock acquisition and return,
\* and it is the one holding the mutex; so at most one GetAuthorizationToken
\* call is in flight, and a caller at the read of the fields (line 40) or at
\* their assignment (lines 78-87) has no other caller inside with it.
C16_MutualExclusion ==
    /\ Cardinality({c \in Callers : InCriticalSection(c)}) <= 1
    /\ Cardinality({c \in Callers : pc[c] = "exchange"}) <= 1
    /\ \A c \in Callers : InCriticalSection(c) => m = c
    /\ \A c, d \in Callers :
          (c # d /\ pc[c] \in {"check", "refresh"}) => ~InCriticalSection(d)

\* One caller waits for its GetAuthorizationToken call to return while
\* another waits for the mutex.
C16_Witness ==
    \E c, d \in Callers :
        /\ c # d
        /\ pc[c] = "exchange"
        /\ m = c
        /\ pc[d] = "lock"

\* The three fields of the stored credential.
StoredCredential == <<username, password, expiry>>

\* Caller c takes the step that ends a refresh that failed.
FailedRefreshStep(c) ==
    /\ pc[c] = "refresh"
    /\ pc'[c] # "refresh"
    /\ ExchangeFailed(result[c])

\* Caller c takes the step that returns the cached credential.
CacheHitStep(c) ==
    /\ pc[c] = "check"
    /\ pc'[c] = "done"

\* C18: username, password and expiry change only in the step that ends a
\* refresh whose exchange, decode and split succeeded, and that step writes
\* both parts of the pair it returns; a cache hit and a failed refresh leave
\* the three fields as they were, and after a failed refresh the cache is
\* still not valid, now and at every later time, so that the next call makes
\* the exchange again: as long as nothing is stored, every call that has
\* returned has made the exchange.
C18_WrittenOnlyOnSuccess ==
    /\ [][ /\ (StoredCredential' # StoredCredential)
                => (\E c \in Callers :
                      /\ SuccessfulRefreshStep(c)
                      /\ ret'[c] = <<username', password'>>)
           /\ \A c \in Callers :
                (CacheHitStep(c) \/ FailedRefreshStep(c))
                    => StoredCredential' = StoredCredential
           /\ \A c \in Callers :
                FailedRefreshStep(c)
                    => \A t \in clock..(MaxClock + 1) :
                          ~(/\ username' # Empty
                            /\ password' # Empty
                            /\ (lifetime'.nil \/ t < expiry')) ]_vars
    /\ []((username = Empty /\ password = Empty)
            => \A c \in Callers : pc[c] = "done" => exchanged[c])

\* The first refresh succeeded, a later one failed after the credential had
\* expired, and the fields still hold what the first one stored.
C18_Witness ==
    /\ ~lifetime.nil
    /\ first.r.returned
    /\ ~ExchangeFailed(first.r)
    /\ expiry <= clock
    /\ username # Empty
    /\ password # Empty
    /\ StoredCredential = <<FirstRefresh.username, FirstRefresh.password, FirstRefresh.expiry>>
    /\ \E c, d \in Callers :
          /\ c # d
          /\ pc[c] = "done" /\ exchanged[c] /\ ret[c] = <<username, password>>
          /\ pc[d] = "done" /\ exchanged[d] /\ ret[d] = <<Empty, Empty>>

\* The first refresh succeeded, the fields hold what it stored, and the clock
\* still shows the time that call read: a call of Basic that reaches line 40
\* now is a further call with no time elapsed.
FreshlyStored ==
    /\ first.r.returned
    /\ ~ExchangeFailed(first.r)
    /\ StoredCredential = <<FirstRefresh.username, FirstRefresh.password, FirstRefresh.expiry>>
    /\ clock = first.t

\* Caller c passes line 40 and returns the stored pair without an exchange.
HitsFreshCredential(c) ==
    /\ pc'[c] = "done"
    /\ ~exchanged'[c]
    /\ ret'[c] = <<FirstRefresh.username, FirstRefresh.password>>
    /\ StoredCredential' = StoredCredential

\* C19 as stated: after a refresh that succeeded, whatever the token, the
\* stated expiry and the lifetime, a further call of Basic with no time
\* elapsed returns the same pair and makes no exchange.
C19_FreshAlwaysValid ==
    [][\A c \in Callers :
          (pc[c] = "check" /\ pc'[c] # "check" /\ FreshlyStored)
              => HitsFreshCredential(c)]_vars

\* The token of the first refresh gave a non-empty username and a non-empty
\* password, and either no lifetime is configured, or one greater than zero,
\* or the stated expiry is more than one hour after the time the call read.
FreshIsUsable ==
    /\ FirstRefresh.username # Empty
    /\ FirstRefresh.password # Empty
    /\ \/ lifetime.nil
       \/ lifetime.d > 0
       \/ first.t < first.r.data[1].expiresAt - Hour

\* C19, amended: after a refresh that succeeded with a token whose username
\* and password parts are both non-empty, a further call of Basic with no
\* time elapsed returns the same pair and makes no exchange, provided no
\* lifetime is configured, or the configured lifetime is greater than zero,
\* or the stated expiry is more than one hour away.
C19_FreshUsableValid ==
    [][\A c \in Callers :
          (pc[c] = "check" /\ pc'[c] # "check" /\ FreshlyStored /\ FreshIsUsable)
              => HitsFreshCredential(c)]_vars

\* Under a lifetime of two hours the first refresh, begun at time 2, stored a
\* credential, and a further call at time 2 has returned it without an exchange.
C19_Witness ==
    /\ FreshlyStored
    /\ FreshIsUsable
    /\ ~lifetime.nil
    /\ lifetime.d = 2
    /\ first.t = 2
    /\ \E c \in Callers :
          /\ pc[c] = "done"
          /\ ~exchanged[c]
          /\ ret[c] = <<FirstRefresh.username, FirstRefresh.password>>

\* C20: the mutex is held only by a caller that is inside Basic between Lock
\* and return, so no caller waits on a lock nobody running holds; and every
\* caller that has entered Basic returns.
C20_LockReleasedAndProgress ==
    /\ [](m # Unlocked => (m \in Callers /\ InCriticalSection(m)))
    /\ \A c \in Callers : (pc[c] = "lock") ~> (pc[c] = "done")

\* A caller stands at Lock and the mutex is free again after another caller
\* returned from a failed refresh.
C20_Witness ==
    \E c, d \in Callers :
        /\ pc[c] = "lock"
        /\ pc[d] = "done"
        /\ exchanged[d]
        /\ ret[d] = <<Empty, Empty>>
        /\ m = Unlocked

\* ------------------------------------------------------------------ properties of GetContent

\* The import key shape as the key namespace defines it:
\* /docker/registry/v2/repositories/<repository>/_manifests/tags/<tag>/current/link
\* with a non-empty repository and a non-empty tag that holds no '/', the
\* whole key being one line.
\* The positions where the middle part can then stand (at most one).
ShapeSplits(s) ==
    { i \in 1..Len(s) :
        /\ LiteralAt(s, KeyPrefix, 1)
        /\ LiteralAt(s, KeyMiddle, i)
        /\ LiteralAt(s, KeySuffix, Len(s) - Len(KeySuffix) + 1)
        /\ i > Len(KeyPrefix) + 1
        /\ i + Len(KeyMiddle) <= Len(s) - Len(KeySuffix)
        /\ \A k \in 1..Len(s) : s[k] # "\n"
        /\ \A k \in (i + Len(KeyMiddle))..(Len(s) - Len(KeySuffix)) : s[k] # "/" }

ShapeRepository(s) ==
    LET i == CHOOSE x \in ShapeSplits(s) : TRUE
    IN  SubSeq(s, Len(KeyPrefix) + 1, i - 1)

ShapeTag(s) ==
    LET i == CHOOSE x \in ShapeSplits(s) : TRUE
    IN  SubSeq(s, i + Len(KeyMiddle), Len(s) - Len(KeySuffix))

ImportKeyShape(s) == ShapeSplits(s) # {}

\* The first read of request q has been made and succeeded / failed.
FirstReadHit(q) == Len(ops[q]) >= 1 /\ ops[q][1].res.err = NilErr
FirstReadMiss(q) == Len(ops[q]) >= 1 /\ ops[q][1].res.err # NilErr

\* C5: when the first read of the wrapped store succeeds, GetContent returns
\* exactly its bytes with a nil error, reads the store once, and runs no
\* pull, tag or push.
C5_ReadHitPassThrough ==
    \A q \in Requests :
        FirstReadHit(q)
            => /\ fpc[q] = "done"
               /\ fret[q] = [out |-> ops[q][1].res.out, err |-> NilErr]
               /\ Len(ops[q]) = 1

C5_Witness ==
    \E q \in Requests :
        /\ FirstReadHit(q)
        /\ fpc[q] = "done"
        /\ ops[q][1].res.out = ""
        /\ fret[q].out = ""

\* C6: when the first read fails and the path is not of the import key
\* shape, GetContent returns an "invalid path" error and nothing else runs.
C6_UnrecognizedKeyRejected ==
    \A q \in Requests :
        (FirstReadMiss(q) /\ ~ImportKeyShape(path[q]))
            => /\ fpc[q] = "done"
               /\ fret[q].err = [kind |-> "invalid path: %s", arg |-> path[q]]
               /\ Len(ops[q]) = 1

\* The commands of an import of (repo, tag), in order.
ImportSequence(repo, tag) ==
    << [op |-> "pull", args |-> <<Remote \o <<"/">> \o repo \o <<":">> \o tag>>],
       [op |-> "tag", args |-> <<Remote \o <<"/">> \o repo \o <<":">> \o tag,
                                 Local \o <<"/">> \o repo \o <<":">> \o tag>>],
       [op |-> "push", args |-> <<Local \o <<"/">> \o repo \o <<":">> \o tag>>] >>

\* The commands request q has run: the entries of ops after the first read
\* that are not store reads.
CommandsRun(q) == SelectSeq(ops[q], LAMBDA e : e.op # "GetContent")
StoreReads(q) == SelectSeq(ops[q], LAMBDA e : e.op = "GetContent")

\* C7: after a failed first read of a key the pattern matches with groups
\* (repo, tag), the commands run are a prefix of pull, tag, push on the images
\* remote/repo:tag and local/repo:tag, each run only after the one before
\* succeeded; a failed command ends the request with no second store read.
C7_ImportSequence ==
    \A q \in Requests :
        (FirstReadMiss(q) /\ Len(matches[q]) = 3)
            => LET want == ImportSequence(matches[q][2], matches[q][3])
                   ran == CommandsRun(q)
               IN  /\ matches[q] = FindStringSubmatch(path[q])
                   /\ Len(ran) <= 3
                   /\ \A k \in 1..Len(ran) :
                        /\ ran[k].op = want[k].op
                        /\ ran[k].args = want[k].args
                        /\ ops[q][k + 1] = ran[k]
                        /\ k > 1 => ran[k - 1].res.err = NilErr
                   /\ \A k \in 1..Len(ran) :
                        ran[k].res.err # NilErr
                            => /\ Len(ran) = k
                               /\ fpc[q] = "done"
                               /\ Len(StoreReads(q)) = 1

\* Pull succeeded, tag failed: the request is over after two commands.
C7_Witness ==
    \E q \in Requests :
        /\ FirstReadMiss(q)
        /\ Len(matches[q]) = 3
        /\ Len(CommandsRun(q)) = 2
        /\ CommandsRun(q)[1].res.err = NilErr
        /\ CommandsRun(q)[2].res.err # NilErr
        /\ fpc[q] = "done"

\* Pull, tag and push of request q have all run and succeeded.
ImportSucceeded(q) ==
    /\ Len(CommandsRun(q)) = 3
    /\ \A k \in 1..3 : CommandsRun(q)[k].res.err = NilErr

\* C8: after a successful import GetContent reads the wrapped store once more
\* with the same path and returns that read's result; a request never reads
\* the store more than twice and never imports twice.
C8_RetryOnce ==
    \A q \in Requests :
        /\ Len(StoreReads(q)) <= 2
        /\ Len(CommandsRun(q)) <= 3
        /\ Len(StoreReads(q)) = 2 => ImportSucceeded(q)
        /\ (ImportSucceeded(q) /\ fpc[q] = "done")
              => /\ Len(ops[q]) = 5
                 /\ ops[q][5].op = "GetContent"
                 /\ ops[q][5].args = <<path[q]>>
                 /\ ops[q][1].args = <<path[q]>>
                 /\ fret[q] = ops[q][5].res
        /\ (ImportSucceeded(q) /\ fpc[q] # "done") => fpc[q] = "retry"

\* The import succeeded and the second read missed again.
C8_Witness ==
    \E q \in Requests :
        /\ ImportSucceeded(q)
        /\ fpc[q] = "done"
        /\ fret[q].err = [kind |-> "PathNotFoundError", arg |-> <<>>]

\* Request q has ended on a failed pull, tag or push.
ImportFailed(q) ==
    /\ fpc[q] = "done"
    /\ Len(CommandsRun(q)) >= 1
    /\ CommandsRun(q)[Len(CommandsRun(q))].res.err # NilErr

\* The sub-step that failed, and the image the import was for.
FailedStep(q) == CommandsRun(q)[Len(CommandsRun(q))].op
ImportedImage(q) == FullImage(matches[q][2], matches[q][3])

\* C13: the error GetContent returns for a failed import identifies the image
\* being imported and the sub-step that failed: it is an import-failure error,
\* and two failed imports that return the same error were importing the same
\* image and failed in the same sub-step.
C13_ImportFailureContext ==
    \A q1, q2 \in Requests :
        (ImportFailed(q1) /\ ImportFailed(q2))
            => /\ fret[q1].err.kind = "failed to pull from ECR: %v"
               /\ fret[q1].err = fret[q2].err
                    => /\ ImportedImage(q1) = ImportedImage(q2)
                       /\ FailedStep(q1) = FailedStep(q2)

\* Request q is inside pullAndImportFromECR, a command of its own pending.
Importing(q) == fpc[q] \in {"pull", "tag", "push"}

\* The pending command of request q can run.
CanRunCommand(q) ==
    \/ ENABLED (\E res \in ExecResults : Pull(q, res))
    \/ ENABLED (\E res \in ExecResults : TagImage(q, res))
    \/ ENABLED (\E res \in ExecResults : Push(q, res))

\* Everything the ecrFetcher keeps for request q.
RequestState(q) == <<fpc[q], path[q], matches[q], ops[q], fret[q]>>

\* C17: imports are not serialised and share no state: whatever the other
\* requests are doing, for the same key or another, the pending pull, tag or
\* push of a request can run, and a step of one request changes nothing of
\* another request.
C17_NoSingleFlight ==
    /\ [](\A q \in Requests : Importing(q) => CanRunCommand(q))
    /\ [][\A q, o \in Requests :
            (q # o /\ RequestState(q)' # RequestState(q))
                => RequestState(o)' = RequestState(o)]_vars

\* Two requests for the same key are both inside the import, each having run
\* its own pull of the same image.
C17_Witness ==
    \E q, o \in Requests :
        /\ q # o
        /\ path[q] = path[o]
        /\ matches[q] = matches[o]
        /\ fpc[q] = "tag"
        /\ fpc[o] = "push"
        /\ CommandsRun(q)[1].op = "pull"
        /\ CommandsRun(o)[1] = CommandsRun(q)[1]

\* ------------------------------------------------------------------ properties of the classifiers

\* C9: the pattern accepts a key exactly when it is of the import key shape,
\* and then yields the key's repository and tag; every other string is
\* rejected.
C9_MatchExact ==
    matched =>
        IF ImportKeyShape(key)
        THEN submatch = <<key, ShapeRepository(key), ShapeTag(key)>>
        ELSE submatch = <<>>

\* The ways host h reads as N.dkr.ecr.R.amazonaws.com with N digits and R a
\* label without '.': the lengths of N and R.
ECRHostSplits(h) ==
    { nr \in (1..Len(h)) \X (1..Len(h)) :
        /\ \A k \in 1..nr[1] : h[k] \in Digits
        /\ LiteralAt(h, DkrEcr, nr[1] + 1)
        /\ \A k \in (nr[1] + Len(DkrEcr) + 1)..(nr[1] + Len(DkrEcr) + nr[2]) : h[k] # "."
        /\ LiteralAt(h, AmazonawsCom, nr[1] + Len(DkrEcr) + nr[2] + 1)
        /\ nr[1] + Len(DkrEcr) + nr[2] + Len(AmazonawsCom) = Len(h) }

\* The URL parses and its host is an ECR registry host.
IsECRHostURL(url) ==
    /\ ~ParseURL(url).err
    /\ ECRHostSplits(ParseURL(url).Host) # {}

\* C10: isECRURL is true exactly when parseECRURL returns no error; for a URL
\* whose host is N.dkr.ecr.R.amazonaws.com both accept and parseECRURL returns
\* (N, R); for any other host and for a URL that does not parse both reject.
C10_ClassifiersAgree ==
    /\ (isECR.called /\ parsed.called) => (isECR.v <=> ~parsed.err)
    /\ isECR.called => (isECR.v <=> IsECRHostURL(registryURL))
    /\ parsed.called =>
         IF IsECRHostURL(registryURL)
         THEN LET h == ParseURL(registryURL).Host
                  nr == CHOOSE x \in ECRHostSplits(h) : TRUE
              IN  /\ ~parsed.err
                  /\ parsed.accountID = SubSeq(h, 1, nr[1])
                  /\ parsed.region =
                        SubSeq(h, nr[1] + Len(DkrEcr) + 1, nr[1] + Len(DkrEcr) + nr[2])
         ELSE /\ parsed.err
              /\ parsed.accountID = <<>>
              /\ parsed.region = <<>>

\* The account and the region the host of an ECR registry URL names.
ECRAccountOf(url) ==
    LET h == ParseURL(url).Host
        nr == CHOOSE x \in ECRHostSplits(h) : TRUE
    IN  SubSeq(h, 1, nr[1])

ECRRegionOf(url) ==
    LET h == ParseURL(url).Host
        nr == CHOOSE x \in ECRHostSplits(h) : TRUE
    IN  SubSeq(h, nr[1] + Len(DkrEcr) + 1, nr[1] + Len(DkrEcr) + nr[2])

\* The store configureECRAuth returned is for the configured account when one
\* is configured and else for the account of the URL; likewise the region of
\* the AWS configuration it built.
ResolvedIdentity ==
    /\ ~configured.store.nil =>
          configured.store.registryID =
              IF cfg.AccountID # Empty THEN cfg.AccountID ELSE ECRAccountOf(remoteURL)
    /\ configured.config.built =>
          configured.config.Region =
              IF cfg.Region # Empty THEN cfg.Region ELSE ECRRegionOf(remoteURL)
    /\ configured.store.nil <=> configured.err # "nil"

\* C15 as stated: the resolved account and region are the configured value
\* when it is non-empty and else the parsed one, and whenever the remote URL
\* does not parse or its host is not an ECR host, configureECRAuth returns an
\* error and no store.
C15_BadURLAlwaysRejected ==
    configured.called =>
        /\ ResolvedIdentity
        /\ ~IsECRHostURL(remoteURL) =>
              (configured.err # "nil" /\ configured.store.nil)

\* C15, amended: the resolved account and region are the configured value
\* when it is non-empty and else the parsed one; when the account or the
\* region is not configured and the remote URL does not parse or its host is
\* not an ECR host, configureECRAuth returns the parse error and no store;
\* when both are configured the URL is not looked at and never the cause of
\* an error.
C15_IdentityResolution ==
    configured.called =>
        /\ ResolvedIdentity
        /\ IF cfg.AccountID = Empty \/ cfg.Region = Empty
           THEN ~IsECRHostURL(remoteURL) =>
                    /\ configured.err = "failed to parse ECR URL %s: %v"
                    /\ configured.store.nil
                    /\ ~configured.config.built
           ELSE configured.err # "failed to parse ECR URL %s: %v"

\* The account is configured and the region is not: the store is for the
\* configured account 22, the region w is the one of the URL.
C15_Witness ==
    /\ configured.called
    /\ cfg.AccountID = <<"2", "2">>
    /\ cfg.Region = Empty
    /\ IsECRHostURL(remoteURL)
    /\ configured.err = "nil"
    /\ configured.store.registryID = <<"2", "2">>
    /\ configured.config.Region = <<"w">>

\* Both were called on https://u@11.dkr.ecr.w.amazonaws.com/my-repo.
C10_Witness ==
    /\ registryURL = <<"h","t","t","p","s",":","/","/">> \o <<"u","@">> \o <<"1","1">>
                     \o DkrEcr \o <<"w">> \o AmazonawsCom
                     \o <<"/","m","y","-","r","e","p","o">>
    /\ isECR.called /\ isECR.v
    /\ parsed.called /\ ~parsed.err
    /\ parsed.accountID = <<"1","1">>
    /\ parsed.region = <<"w">>

====
